---------------------------- MODULE Spec2Model ----------------------------
(***************************************************************************)
(* A model of porthole's server.js: the local service gateway.             *)
(*                                                                         *)
(* The gateway is one Node.js process.  Its parts are modelled as state    *)
(* machines over one set of variables, each with its own specification:    *)
(*                                                                         *)
(*   Spec         the HTTP request handler: routing, the selection cookie  *)
(*                and the forwarding of requests to an upstream            *)
(*   SpecSelect   the request handler on the selection requests /proxy/P   *)
(*   SpecScan     scanPorts: one scan of the configured ranges in batches  *)
(*   SpecProbe    checkPort: the socket of one probe and its events        *)
(*   SpecTunnel   createTunnel and the agent's control API                 *)
(*   SpecTunnelFair  createTunnel calls one after another, each request to *)
(*                the agent ending by its answer, an error or its timeout  *)
(*   SpecTunnels  the same calls and GET /api/tunnels                      *)
(*   SpecStartup  main: the reconciliation with a running agent and the    *)
(*                start of the agent                                       *)
(*   SpecLifecycle  killByPort and launchCommand behind their API routes   *)
(*   SpecApi      the API routes kill, launch, commands, tunnel and        *)
(*                tunnels, each answering one request                      *)
(*                                                                         *)
(* Paths are sequences of segments: the pathname split at "/", without the *)
(* empty string before the first "/".  "/" is <<"">>, "/p" is <<"p">>,     *)
(* "/p/" is <<"p", "">> and "/p/app.js" is <<"p", "app.js">>.              *)
(***************************************************************************)
EXTENDS Integers, Sequences, FiniteSets, TLC

---------------------------------------------------------------------------
(* Bounds of the model *)

\* Number of request slots: requests being forwarded at one time
MaxReqs == 2

\* Ports of the widest configured range, less one: it spans two batches
MaxRangeWidth == 52

\* Number of checkPort calls followed at one time
MaxProbes == 2

\* Number of createTunnel calls in progress at one time
MaxCalls == 2

\* Number of events of the agent's child process followed at startup
MaxChildEvents == 2

\* Number of kill and launch requests handled
MaxApiCalls == 3

---------------------------------------------------------------------------
(* Values common to all parts *)

\* JavaScript's null / undefined, and a port number that is no number
null == -2
NaN == -1

\* Largest port net.Socket.connect accepts
MaxTcpPort == 65535

\* config.serverPort: the gateway's own listening port
serverPort == 8888

---------------------------------------------------------------------------
(* Strings of digits, parseInt and the template literal `${n}` *)

\* The number 10^21 = 1e21, the least whose decimal form JavaScript writes
\* with an exponent; TLC's integers do not reach it, so this value above every
\* other number of the model stands for it
exp21 == 2000000000

\* The digit strings requests carry
DigitStrings ==
  {"0", "1", "2", "3000", "03000", "8080", "8888", "70000", "1000000000000000000000"}

\* parseInt(s, 10) of a digit string
parseInt(s) ==
  CASE s = "0" -> 0
    [] s = "1" -> 1
    [] s = "2" -> 2
    [] s = "3000" -> 3000
    [] s = "03000" -> 3000
    [] s = "8080" -> 8080
    [] s = "8888" -> 8888
    [] s = "70000" -> 70000
    [] s = "1000000000000000000000" -> exp21
    [] OTHER -> NaN

\* `${n}`: the decimal form of a number
toString(n) ==
  CASE n = 0 -> "0"
    [] n = 1 -> "1"
    [] n = 2 -> "2"
    [] n = 3000 -> "3000"
    [] n = 8080 -> "8080"
    [] n = 8888 -> "8888"
    [] n = 70000 -> "70000"
    [] n = exp21 -> "1e+21"
    [] OTHER -> "NaN"

\* The first run of digits a regular expression's (\d+) finds at the start of
\* a segment; "" when the segment does not start with a digit
leadingDigits(seg) ==
  CASE seg \in DigitStrings -> seg
    [] seg = "1abc" -> "1"
    [] seg = "1e+21" -> "1"
    [] OTHER -> ""

\* Whether ^(\d+)$ matches the whole segment
allDigits(seg) == seg \in DigitStrings

VARIABLES
  alive,      \* the gateway process is running
  cookie,     \* the client's cookie jar: the value of porthole_proxy_port, "" when absent
  selected,   \* the port of the client's latest /proxy/P selection, null when none or cleared
  last,       \* the latest request handled and what the handler did with it at once
  slots,      \* the requests being forwarded: slot -> upstream request and response
  portRanges, \* config.portRanges: a sequence of <<start, end>>
  listening,  \* the local ports that have a TCP listener
  portsToScan,\* scanPorts: portsToScan
  scanPc,     \* scanPorts: "idle", "batch" (awaiting Promise.all) or "done"
  scanI,      \* scanPorts: i, the index where the current batch starts
  pending,    \* scanPorts: positions of the batch whose probe is outstanding
  checks,     \* scanPorts: the batch's results so far, by position
  results,    \* scanPorts: results
  isOpenAt,   \* scanPorts: the positions of portsToScan where isOpen was true
  probes,     \* checkPort: call -> its socket and promise
  agentTunnels,  \* the tunnels the agent lists, in the order it lists them
  activeTunnels, \* activeTunnels: the Map's entries <<port, url>>
  calls,         \* createTunnel: call -> its position and requests
  lastReturn,    \* createTunnel: the port and the result of the latest call that returned
  mainPc,        \* main: "off", "check", "settle", "start", "running", "exited" or "killed"
  reported,      \* main: the tunnels the agent's API reported to checkExistingNgrok
  kills,         \* main: number of killExistingNgrok calls
  starts,        \* main: number of startNgrok calls
  ngrok,         \* startNgrok: its promise, its timer and the child process
  ngrokProcess,  \* main: ngrokProcess, "none" (null) or "child"
  exitCode,      \* the gateway's exit code, null while it runs or when a signal ended it
  quickLaunch,   \* quickLaunch: config.quickLaunch
  spawnCalls,    \* launchCommand: number of spawn calls made
  childError,    \* a spawned child's 'error' event waits to be emitted
  killed,        \* killByPort: the processes killed
  lastApi,       \* the latest kill or launch request and its answer
  lastGet        \* the latest GET /api/commands or /api/tunnels and the JSON answered

routerVars == <<cookie, selected, last, slots>>

scanVars == <<portRanges, portsToScan, scanPc, scanI, pending, checks, results, isOpenAt>>

probeVars == <<probes>>

tunnelVars == <<agentTunnels, activeTunnels, calls, lastReturn>>

startupVars == <<mainPc, reported, kills, starts, ngrok, ngrokProcess, exitCode>>

lifecycleVars == <<quickLaunch, spawnCalls, childError, killed, lastApi, lastGet>>

vars == <<alive, cookie, selected, last, slots, portRanges, listening, portsToScan,
          scanPc, scanI, pending, checks, results, isOpenAt, probes,
          agentTunnels, activeTunnels, calls, lastReturn,
          mainPc, reported, kills, starts, ngrok, ngrokProcess, exitCode,
          quickLaunch, spawnCalls, childError, killed, lastApi, lastGet>>

\* What the actions of one part leave alone: the variables of the other parts
routerOnly == <<listening, scanVars, probeVars, tunnelVars, startupVars, lifecycleVars>>
scanOnly == <<alive, routerVars, probeVars, tunnelVars, startupVars, lifecycleVars>>
probeOnly == <<alive, routerVars, scanVars, tunnelVars, startupVars, lifecycleVars>>
tunnelOnly ==
  <<alive, routerVars, listening, scanVars, probeVars, startupVars, lifecycleVars>>
startupOnly ==
  <<routerVars, listening, scanVars, probeVars, activeTunnels, calls, lastReturn,
    lifecycleVars>>
lifecycleOnly ==
  <<routerVars, listening, scanVars, probeVars, tunnelVars, startupVars>>

---------------------------------------------------------------------------
(* The request handler, server.js 786-955 *)

\* The requests a client sends: method, pathname, query string
Requests ==
  { [method |-> "GET",  path |-> <<"">>,                         search |-> ""],
    [method |-> "GET",  path |-> <<"api", "ports">>,             search |-> ""],
    [method |-> "POST", path |-> <<"api", "ports">>,             search |-> ""],
    [method |-> "POST", path |-> <<"api", "kill", "3000">>,      search |-> ""],
    [method |-> "POST", path |-> <<"api", "launch", "1abc">>,    search |-> ""],
    [method |-> "POST", path |-> <<"api", "tunnel", "3000">>,    search |-> ""],
    [method |-> "GET",  path |-> <<"api", "tunnels">>,           search |-> ""],
    [method |-> "GET",  path |-> <<"api", "other">>,             search |-> ""],
    [method |-> "GET",  path |-> <<"api">>,                      search |-> ""],
    [method |-> "GET",  path |-> <<"proxy", "3000">>,            search |-> ""],
    [method |-> "GET",  path |-> <<"proxy", "03000", "app.js">>, search |-> "?v=1"],
    [method |-> "POST", path |-> <<"proxy", "8080", "">>,        search |-> ""],
    [method |-> "GET",  path |-> <<"proxy", "0", "app.js">>,     search |-> ""],
    [method |-> "GET",  path |-> <<"proxy", "70000">>,           search |-> ""],
    [method |-> "GET",  path |-> <<"proxy">>,                    search |-> ""],
    [method |-> "GET",  path |-> <<"p">>,                        search |-> ""],
    [method |-> "POST", path |-> <<"p", "app.js">>,              search |-> ""],
    [method |-> "GET",  path |-> <<"favicon.ico">>,              search |-> ""],
    [method |-> "POST", path |-> <<"static", "app.js">>,         search |-> "?v=1"] }

\* The selection requests /proxy/<digits><subpath>?<query>: every digit
\* string, without subpath, with the subpath / and with longer ones
SelectRequests ==
  { [method |-> m, path |-> <<"proxy", d>> \o sub, search |-> q] :
      m \in {"GET", "POST"}, d \in DigitStrings,
      sub \in { << >>, <<"">>, <<"app.js">>, <<"static", "app.js">> },
      q \in {"", "?v=1"} }

\* str.startsWith("/" + a + "/")
startsWith1(path, a) == Len(path) >= 2 /\ path[1] = a

\* str.startsWith("/" + a + "/" + b + "/")
startsWith2(path, a, b) == Len(path) >= 3 /\ path[1] = a /\ path[2] = b

\* url.pathname.match(/\/api\/<name>\/(\d+)/) on a path that starts with
\* /api/<name>/ : parseInt of the digits found, NaN without a match
apiNumber(path) ==
  LET d == leadingDigits(path[3])
  IN IF d = "" THEN NaN ELSE parseInt(d)

\* The match without the group of the subpath: /^\/proxy\/(\d+)$/
proxyMatchNoSubpath(path) ==
  Len(path) = 2 /\ path[1] = "proxy" /\ allDigits(path[2])

\* url.pathname.match(/^\/proxy\/(\d+)(\/.*)?$/)
proxyMatch(path) ==
  Len(path) >= 2 /\ path[1] = "proxy" /\ allDigits(path[2])

\* cookiePort with the expression (\d) in place of (\d+): only the first digit
cookiePortFirstDigit(cookies) ==
  IF cookies = "" THEN null
  ELSE CASE cookies = "3000" -> 3 [] cookies = "8080" -> 8 [] cookies = "8888" -> 8
         [] cookies = "70000" -> 7 [] cookies = "1e+21" -> 1
         [] OTHER -> parseInt(cookies)

\* cookies.match(/porthole_proxy_port=(\d+)/) and parseInt: the target port of
\* a Cookie header, null without the cookie
cookiePort(cookies) ==
  IF cookies = "" THEN null ELSE parseInt(leadingDigits(cookies))

\* A test that takes only the port 0 for no target
falsyZeroOnly(targetPort) == targetPort = 0

\* !targetPort
falsy(targetPort) == targetPort = null \/ targetPort = 0

\* What http.request does with a port: it throws ERR_SOCKET_BAD_PORT for a
\* port outside 0..65535
validPort(targetPort) == targetPort \in 0..MaxTcpPort

\* A response or decision of the handler with nothing set
noResult ==
  [kind |-> "none", api |-> "", arg |-> NaN, status |-> 0, body |-> <<>>,
   setCookie |-> "", location |-> <<>>, locSearch |-> "",
   port |-> NaN, upath |-> <<>>, usearch |-> "", umethod |-> "", uhost |-> NaN]

\* A JSON answer of an /api/ route
apiResult(name, arg, status) ==
  [noResult EXCEPT !.kind = "api", !.api = name, !.arg = arg, !.status = status]

\* The test of the bare-path branch without its two exclusions
barePathAny(path) == TRUE

\* !url.pathname.startsWith('/api/') && url.pathname !== '/'
barePath(path) == ~startsWith1(path, "api") /\ path # <<"">>

\* An upstream request that is always sent as a GET
forwardResultAsGet(req, targetPort, targetPath) ==
  [noResult EXCEPT !.kind = IF validPort(targetPort) THEN "forward" ELSE "throw",
                   !.port = targetPort, !.upath = targetPath,
                   !.usearch = req.search, !.umethod = "GET",
                   !.uhost = targetPort]

\* The upstream request of a forwarded request
forwardResult(req, targetPort, targetPath) ==
  [noResult EXCEPT !.kind = IF validPort(targetPort) THEN "forward" ELSE "throw",
                   !.port = targetPort, !.upath = targetPath,
                   !.usearch = req.search, !.umethod = req.method,
                   !.uhost = targetPort]

\* The handler's decision for a request carrying the Cookie header cookies
route(req, cookies) ==
  LET path == req.path
      method == req.method
  IN
  IF path = <<"api", "ports">> /\ method = "GET" THEN apiResult("ports", NaN, 200)
  ELSE IF startsWith2(path, "api", "kill") /\ method = "POST" THEN
    IF apiNumber(path) = NaN THEN apiResult("invalid", NaN, 400)
    ELSE apiResult("kill", apiNumber(path), 200)
  ELSE IF startsWith2(path, "api", "launch") /\ method = "POST" THEN
    IF apiNumber(path) = NaN THEN apiResult("invalid", NaN, 400)
    ELSE apiResult("launch", apiNumber(path), 200)
  ELSE IF path = <<"api", "commands">> /\ method = "GET" THEN apiResult("commands", NaN, 200)
  ELSE IF startsWith2(path, "api", "tunnel") /\ method = "POST" THEN
    IF apiNumber(path) = NaN THEN apiResult("invalid", NaN, 400)
    ELSE apiResult("tunnel", apiNumber(path), 200)
  ELSE IF path = <<"api", "tunnels">> /\ method = "GET" THEN apiResult("tunnels", NaN, 200)
  ELSE IF proxyMatch(path) THEN
    [noResult EXCEPT !.kind = "select", !.status = 302,
                     !.setCookie = toString(parseInt(path[2])),
                     !.location = <<"p">> \o (IF Len(path) > 2 THEN SubSeq(path, 3, Len(path))
                                                ELSE <<"">>),
                     !.locSearch = req.search]
  ELSE IF startsWith1(path, "p") \/ path = <<"p">> THEN
    IF falsy(cookiePort(cookies))
    THEN [noResult EXCEPT !.kind = "noTarget", !.status = 400, !.body = <<"No proxy target set">>]
    ELSE forwardResult(req, cookiePort(cookies),
                       IF Len(path) > 1 THEN Tail(path) ELSE <<"">>)
  ELSE IF barePath(path) /\ ~falsy(cookiePort(cookies)) THEN
    forwardResult(req, cookiePort(cookies), path)
  ELSE IF path = <<"">> /\ method = "GET" THEN
    [noResult EXCEPT !.kind = "page", !.status = 200]
  ELSE [noResult EXCEPT !.kind = "notFound", !.status = 404, !.body = <<"Not found">>]

---------------------------------------------------------------------------
(* Forwarding: the upstream request of a /p or bare-path request,          *)
(* server.js 890-909 and 920-939                                           *)

Slots == 1..MaxReqs

\* Status codes an upstream answers with
UpstreamStatuses == {200}

\* err.message of a failed upstream request: the connection is refused before
\* any answer, or it is reset while the answer is relayed
upstreamError(slot) == IF slot.phase = "upstream" THEN "ECONNREFUSED" ELSE "ECONNRESET"

\* A slot no request uses
freeSlot ==
  [phase |-> "free", port |-> NaN, status |-> 0, body |-> <<>>, err |-> "",
   tries |-> 0, headersSent |-> FALSE]

\* http.request(...): one upstream request to 127.0.0.1:targetPort
proxyRequest(targetPort) ==
  [freeSlot EXCEPT !.phase = "upstream", !.port = targetPort, !.tries = 1]

\* The response callback: res.writeHead(proxyRes.statusCode, proxyRes.headers)
\* and proxyRes.pipe(res)
onProxyResponse(slot, statusCode) ==
  [slot EXCEPT !.phase = "relaying", !.status = statusCode, !.headersSent = TRUE]

\* onProxyError with one more attempt before the 502
onProxyErrorRetry(slot, message) ==
  IF slot.headersSent
  THEN [slot EXCEPT !.phase = "crash", !.err = message]
  ELSE IF slot.tries < 2
  THEN [slot EXCEPT !.tries = slot.tries + 1]
  ELSE [slot EXCEPT !.phase = "done", !.status = 502, !.err = message,
                    !.body = <<"Proxy error: ", message>>, !.headersSent = TRUE]

\* proxyReq.on('error'): res.writeHead(502) and res.end(JSON of the error).
\* res.writeHead throws ERR_HTTP_HEADERS_SENT once the upstream's headers have
\* been relayed; the handler then leaves an uncaught exception ("crash").
onProxyError(slot, message) ==
  IF slot.headersSent
  THEN [slot EXCEPT !.phase = "crash", !.err = message]
  ELSE [slot EXCEPT !.phase = "done", !.status = 502, !.err = message,
                    !.body = <<"Proxy error: ", message>>, !.headersSent = TRUE]

\* A client sends a request with its cookie jar; the handler runs to its
\* first return.  A forwarded request takes a slot.  http.request throwing in
\* the async handler is an unhandled rejection: it ends the process (Node 15
\* and later) or leaves the request unanswered (Node 14).
HandleRequest(req) ==
  /\ alive
  /\ LET r == route(req, cookie)
     IN /\ last' = [req |-> req, cookie |-> cookie, selected |-> selected, result |-> r]
        /\ IF r.kind = "select"
           THEN cookie' = r.setCookie /\ selected' = parseInt(req.path[2])
           ELSE UNCHANGED <<cookie, selected>>
        /\ IF r.kind = "forward"
           THEN \E i \in Slots :
                  /\ slots[i].phase = "free"
                  /\ \A j \in Slots : j < i => slots[j].phase # "free"
                  /\ slots' = [slots EXCEPT ![i] = proxyRequest(r.port)]
           ELSE UNCHANGED slots
        /\ IF r.kind = "throw"
           THEN alive' \in {TRUE, FALSE}
           ELSE UNCHANGED alive
  /\ UNCHANGED routerOnly

\* The upstream answers: its status line and headers arrive
UpstreamResponds(i, statusCode) ==
  /\ alive
  /\ slots[i].phase = "upstream"
  /\ slots' = [slots EXCEPT ![i] = onProxyResponse(slots[i], statusCode)]
  /\ UNCHANGED <<alive, cookie, selected, last, routerOnly>>

\* The upstream request fails: the connection is refused before any answer,
\* or it breaks while the answer's body is relayed
UpstreamFails(i) ==
  /\ alive
  /\ slots[i].phase \in {"upstream", "relaying"}
  /\ LET s == onProxyError(slots[i], upstreamError(slots[i]))
     IN /\ slots' = [slots EXCEPT ![i] = s]
        /\ alive' = (s.phase # "crash")
  /\ UNCHANGED <<cookie, selected, last, routerOnly>>

\* The upstream's body ends: proxyRes.pipe(res) ends the response
UpstreamEnds(i) ==
  /\ alive
  /\ slots[i].phase = "relaying"
  /\ slots' = [slots EXCEPT ![i].phase = "done"]
  /\ UNCHANGED <<alive, cookie, selected, last, routerOnly>>

\* The client has its answer; the slot serves the next request
Release(i) ==
  /\ alive
  /\ slots[i].phase = "done"
  /\ slots' = [slots EXCEPT ![i] = freeSlot]
  /\ UNCHANGED <<alive, cookie, selected, last, routerOnly>>

\* The client clears its cookies
ClearCookie ==
  /\ alive
  /\ cookie # ""
  /\ cookie' = ""
  /\ selected' = null
  /\ UNCHANGED <<alive, last, slots, routerOnly>>

noRequest == [method |-> "", path |-> <<>>, search |-> ""]

RouterInit ==
  /\ alive = TRUE
  /\ cookie = ""
  /\ selected = null
  /\ last = [req |-> noRequest, cookie |-> "", selected |-> null, result |-> noResult]
  /\ slots = [i \in Slots |-> freeSlot]

RouterNext ==
  \/ \E req \in Requests : HandleRequest(req)
  \/ \E i \in Slots, c \in UpstreamStatuses : UpstreamResponds(i, c)
  \/ \E i \in Slots : UpstreamFails(i)
  \/ \E i \in Slots : UpstreamEnds(i)
  \/ \E i \in Slots : Release(i)
  \/ ClearCookie


---------------------------------------------------------------------------
(* checkPort, server.js 33-64: one probe, its socket and its promise *)

Probes == 1..MaxProbes

\* The ports probed in SpecProbe
ProbePorts == {3000, 3001}

\* The events a probe's socket can emit
SocketEvents == {"connect", "timeout", "error"}

\* A probe that has not been started
noProbe ==
  [phase |-> "idle", port |-> NaN, resolved |-> FALSE, settled |-> FALSE,
   value |-> FALSE, rejected |-> FALSE, destroyed |-> FALSE, resolveCalls |-> 0,
   timerFired |-> FALSE]

\* new Promise, new net.Socket(), socket.setTimeout(timeout), the handlers,
\* socket.connect(port, '127.0.0.1')
newProbe(port) == [noProbe EXCEPT !.phase = "connecting", !.port = port]

\* resolve(v) of the promise: the first call settles it, later calls do nothing
resolvePromise(p, v) ==
  IF p.settled
  THEN [p EXCEPT !.resolveCalls = p.resolveCalls + 1]
  ELSE [p EXCEPT !.settled = TRUE, !.value = v, !.resolveCalls = p.resolveCalls + 1]

\* A handler that leaves the socket open
destroySocketSkipped(p) == p

\* socket.destroy()
destroySocket(p) == [p EXCEPT !.destroyed = TRUE, !.phase = "closed"]

\* socket.on('connect')
onConnect(p) == resolvePromise(destroySocket([p EXCEPT !.resolved = TRUE]), TRUE)

\* socket.on('timeout')
onTimeout(p) ==
  IF ~p.resolved
  THEN resolvePromise(destroySocket([p EXCEPT !.resolved = TRUE, !.timerFired = TRUE]), FALSE)
  ELSE [p EXCEPT !.timerFired = TRUE]

\* onError without its body: an error handler that only swallows the error.
\* Node destroys a socket after its 'error' event.
onErrorSwallowed(p) == [p EXCEPT !.destroyed = TRUE, !.phase = "closed"]

\* socket.on('error')
onError(p) ==
  IF ~p.resolved
  THEN resolvePromise(destroySocket([p EXCEPT !.resolved = TRUE]), FALSE)
  ELSE p

\* The handler of a socket event
onSocketEvent(p, event) ==
  CASE event = "connect" -> onConnect(p)
    [] event = "timeout" -> onTimeout(p)
    [] event = "error" -> onError(p)

\* The events the socket of a probe of port can emit next: 'connect' when a
\* listener accepts, 'error' when the connection is refused or fails, 'timeout'
\* when the socket's timer runs out first
eventsFor(port) ==
  IF port \in listening THEN {"connect", "timeout", "error"} ELSE {"timeout", "error"}

\* checkPort(port) is called
ProbeStarts(i, port) ==
  /\ probes[i].phase = "idle"
  /\ \A j \in Probes : j < i => probes[j].phase # "idle"
  /\ probes' = [probes EXCEPT ![i] = newProbe(port)]
  /\ UNCHANGED <<listening, probeOnly>>

\* The socket of probe i emits an event and its handler runs.  A destroyed
\* socket emits nothing more.
ProbeEvent(i, event) ==
  /\ probes[i].phase = "connecting"
  /\ ~probes[i].destroyed
  /\ event \in eventsFor(probes[i].port)
  /\ probes' = [probes EXCEPT ![i] = onSocketEvent(probes[i], event)]
  /\ UNCHANGED <<listening, probeOnly>>

\* The timer socket.setTimeout armed runs out
ProbeTimeout(i) == ProbeEvent(i, "timeout")

\* A local service starts or stops listening
ListenerChanges(port) ==
  /\ listening' = IF port \in listening THEN listening \ {port} ELSE listening \cup {port}
  /\ UNCHANGED <<probes, probeOnly>>

ProbeInit ==
  /\ probes = [i \in Probes |-> noProbe]

ProbeNext ==
  \/ \E i \in Probes, port \in ProbePorts : ProbeStarts(i, port)
  \/ \E i \in Probes : ProbeEvent(i, "connect")
  \/ \E i \in Probes : ProbeEvent(i, "error")
  \/ \E i \in Probes : ProbeTimeout(i)
  \/ \E port \in ProbePorts : ListenerChanges(port)

---------------------------------------------------------------------------
(* scanPorts, server.js 88-112, with getPortsToScan and getProcessInfo *)

\* batchSize
batchSize == 50

\* The range configurations: one port, a range around the gateway's own port,
\* a range wider than a batch, two overlapping ranges, no range
RangeConfigs ==
  { << <<3000, 3000>> >>,
    << <<8887, 8889>> >>,
    << <<3000, 3000 + MaxRangeWidth>> >>,
    << <<3000, 3001>>, <<3000, 3000>> >>,
    << >> }

\* The ports that may have a listener
ListenCandidates == {3000, 3051, 8888, 8889}

\* The inner loop of getPortsToScan: start, start + 1, ..., end
rangePorts(range) ==
  IF range[1] > range[2] THEN << >>
  ELSE [k \in 1..(range[2] - range[1] + 1) |-> range[1] + k - 1]

RECURSIVE getPortsToScanFrom(_, _)
getPortsToScanFrom(ranges, k) ==
  IF k > Len(ranges) THEN << >>
  ELSE rangePorts(ranges[k]) \o getPortsToScanFrom(ranges, k + 1)

\* getPortsToScan()
getPortsToScan == getPortsToScanFrom(portRanges, 1)

\* What lsof prints for a listening port: nothing usable (execSync throws: lsof
\* is missing, grep finds no line, or the timeout of 5000 ms passes), or a line
\* whose first two columns are the command and the PID
LsofOutcomes == {"throws", "line"}

\* The result of a probe's callback that found no listener, or skipped the port
nullEntry == [port |-> null, name |-> "", pid |-> null]

\* A position of the batch whose callback has not returned yet
pendingEntry == [port |-> NaN, name |-> "", pid |-> null]

\* getProcessInfo whose failure gives no name
getProcessInfoNameless(port, lsof) ==
  IF lsof = "line" THEN [name |-> "node", pid |-> 4242]
  ELSE [name |-> "", pid |-> null]

\* getProcessInfo(port)
getProcessInfo(port, lsof) ==
  IF lsof = "line" THEN [name |-> "node", pid |-> 4242]
  ELSE [name |-> "unknown", pid |-> null]

\* { port, ...processInfo }
entryOf(port, info) == [port |-> port, name |-> info.name, pid |-> info.pid]

\* isOpen: the value checkPort's promise settles with after the socket's event
checkPortValue(event) == onSocketEvent(newProbe(NaN), event).value

\* The test of the scan's skip with the comparison left out
isOwnPortNever(port) == FALSE

\* port === serverPort
isOwnPort(port) == port = serverPort

\* A slice that takes every port from i on
batchPositionsToEnd(ports, i) == { k \in 1..Len(ports) : i < k }

\* portsToScan.slice(i, i + batchSize), as the positions it takes
batchPositions(ports, i) ==
  { k \in 1..Len(ports) : i < k /\ k <= i + batchSize }

\* batch.map(async (port) => ...) up to each callback's first await: a callback
\* of the gateway's own port returns null at once, the others call checkPort
startBatch(ports, i) ==
  /\ scanI' = i
  /\ pending' = { k \in batchPositions(ports, i) : ~isOwnPort(ports[k]) }
  /\ checks' = [k \in batchPositions(ports, i) |->
                  IF isOwnPort(ports[k]) THEN nullEntry ELSE pendingEntry]

\* checks taken whole, without the filter
filterNothing(cs, k, hi) == [j \in 1..(hi - k + 1) |-> cs[k + j - 1]]

\* checks.filter(Boolean), in the order of the batch
RECURSIVE filterBoolean(_, _, _)
filterBoolean(cs, k, hi) ==
  IF k > hi THEN << >>
  ELSE (IF cs[k] = nullEntry THEN << >> ELSE << cs[k] >>) \o filterBoolean(cs, k + 1, hi)

\* scanPorts() is called: it runs to the first await
ScanStarts ==
  /\ scanPc = "idle"
  /\ portsToScan' = getPortsToScan
  /\ results' = << >>
  /\ isOpenAt' = {}
  /\ IF Len(getPortsToScan) > 0
     THEN scanPc' = "batch" /\ startBatch(getPortsToScan, 0)
     ELSE scanPc' = "done" /\ UNCHANGED <<scanI, pending, checks>>
  /\ UNCHANGED <<portRanges, listening, scanOnly>>

Min(S) == CHOOSE x \in S : \A y \in S : x <= y
Max(S) == CHOOSE x \in S : \A y \in S : x >= y

\* The lowest and the highest position of a set of positions
ends(S) == IF S = {} THEN {} ELSE {Min(S), Max(S)}

\* One outstanding probe settles and its callback returns.  The probes of a
\* batch are independent of each other, so of the orders in which they settle
\* the model follows those that take the lowest or the highest outstanding
\* position next.
ProbeResolves(k, event, lsof) ==
  /\ scanPc = "batch"
  /\ k \in ends(pending)
  /\ event \in eventsFor(portsToScan[k])
  /\ pending' = pending \ {k}
  /\ checks' = [checks EXCEPT ![k] =
                  IF checkPortValue(event)
                  THEN entryOf(portsToScan[k], getProcessInfo(portsToScan[k], lsof))
                  ELSE nullEntry]
  /\ isOpenAt' = IF checkPortValue(event) THEN isOpenAt \cup {k} ELSE isOpenAt
  /\ UNCHANGED <<portRanges, listening, portsToScan, scanPc, scanI, results, scanOnly>>

\* Promise.all resolves: results.push(...checks.filter(Boolean)), then the
\* next batch starts or scanPorts returns
BatchEnds ==
  /\ scanPc = "batch"
  /\ pending = {}
  /\ results' = results \o filterBoolean(checks, scanI + 1, Max(DOMAIN checks))
  /\ IF scanI + batchSize < Len(portsToScan)
     THEN scanPc' = "batch" /\ startBatch(portsToScan, scanI + batchSize)
     ELSE scanPc' = "done" /\ UNCHANGED <<scanI, pending, checks>>
  /\ UNCHANGED <<portRanges, listening, portsToScan, isOpenAt, scanOnly>>

ScanInit ==
  /\ portRanges \in RangeConfigs
  /\ listening \in SUBSET ListenCandidates
  /\ portsToScan = << >>
  /\ scanPc = "idle"
  /\ scanI = 0
  /\ pending = {}
  /\ checks = << >>
  /\ results = << >>
  /\ isOpenAt = {}

ScanNext ==
  \/ ScanStarts
  \/ \E k \in ends(pending), event \in SocketEvents, lsof \in LsofOutcomes :
       ProbeResolves(k, event, lsof)
  \/ BatchEnds

---------------------------------------------------------------------------
(* createTunnel and getNgrokTunnelUrl, server.js 166-259, and the agent's  *)
(* control API on 127.0.0.1:4040 as the gateway uses it                    *)

Calls == 1..MaxCalls

\* The ports createTunnel is called with
TunnelPorts == {300, 3000}

\* A public URL: its scheme and its host
noUrl == [scheme |-> "", host |-> <<"", 0>>]

\* A tunnel of the agent: config.addr is http://localhost:<port>
agentTunnel(name, port, scheme, host) ==
  [name |-> name, port |-> port, url |-> [scheme |-> scheme, host |-> host]]

\* The tunnels the agent holds when the gateway starts: none, the main
\* session, a tunnel of port 3000 started by someone else, the same with an
\* http URL only
AgentConfigs ==
  { << >>,
    << agentTunnel(<<"main", 0>>, serverPort, "https", <<"main", 0>>) >>,
    << agentTunnel(<<"ext", 0>>, 3000, "https", <<"ext", 0>>) >>,
    << agentTunnel(<<"ext", 0>>, 3000, "http", <<"ext", 0>>) >> }

\* Whether the decimal digits of p start the decimal digits of a
RECURSIVE isDigitPrefix(_, _)
isDigitPrefix(p, a) == a = p \/ (a >= 10 /\ isDigitPrefix(p, a \div 10))

\* t.config?.addr?.includes(`:${port}`): the text ":<port>" occurs in
\* "http://localhost:<addr port>"
addrIncludes(t, port) == isDigitPrefix(port, t.port)

\* tunnels.tunnels?.find(t => addr includes :port && public_url starts with
\* https), then tunnel?.public_url || null
RECURSIVE findTunnelFrom(_, _, _)
findTunnelFrom(tunnels, port, k) ==
  IF k > Len(tunnels) THEN noUrl
  ELSE IF addrIncludes(tunnels[k], port) /\ tunnels[k].url.scheme = "https"
  THEN tunnels[k].url
  ELSE findTunnelFrom(tunnels, port, k + 1)

findTunnel(tunnels, port) == findTunnelFrom(tunnels, port, 1)

\* `porthole-${port}`: the tunnel's name and its subdomain
tunnelName(port) == <<"porthole", port>>

\* The agent's URL taken as it is
publicUrlAsIs(url) == url

\* result.public_url.startsWith('https') ? result.public_url
\*   : result.public_url.replace('http://', 'https://')
preferHttps(url) ==
  IF url.scheme = "https" THEN url
  ELSE IF url.scheme = "http" THEN [url EXCEPT !.scheme = "https"]
  ELSE url

\* A map that keeps the earlier entry of the key next to the new one
mapAdd(map, port, url) == map \cup { <<port, url>> }

\* activeTunnels.set(port, { url }): the entry of the key is replaced
mapSet(map, port, url) == { e \in map : e[1] # port } \cup { <<port, url>> }

\* activeTunnels.get(port)?.url: the URL recorded for the port, which is the
\* URL of the latest createTunnel call for it that returned success
recorded(map, port) ==
  IF \E e \in map : e[1] = port THEN (CHOOSE e \in map : e[1] = port)[2] ELSE noUrl

\* A result of createTunnel
tunnelResult(success, url, message) ==
  [success |-> success, url |-> url, message |-> message]

\* A createTunnel call that is not in progress
noCall == [pc |-> "idle", port |-> NaN, prior |-> noUrl, posts |-> 0]

\* No call has returned yet
noReturn == [port |-> NaN, result |-> tunnelResult(FALSE, noUrl, "")]

\* What the agent, or the connection to it, makes of GET /api/tunnels: the
\* list, or no usable answer (connection error, no answer within 2000 ms,
\* a body that is no JSON)
ListOutcomes == {"ok", "fail"}

\* What the agent, or the connection to it, makes of POST /api/tunnels: the
\* tunnel is started and its https or its http URL returned; the agent answers
\* with an error_code, with something else, with no JSON; the connection
\* fails; no answer arrives within 5000 ms, the tunnel started or not
PostOutcomes ==
  {"https", "http", "error_code", "unexpected", "parse", "error", "timeout",
   "timeoutStarted"}

\* The outcomes in which the agent starts the tunnel
startsTunnel(outcome) == outcome \in {"https", "http", "timeoutStarted"}

\* A failed POST that is given no message
postMessageNone(outcome) == ""

\* The message of a failed POST
postMessage(outcome) ==
  CASE outcome = "error_code" -> "agent msg"
    [] outcome = "unexpected" -> "Unexpected response from ngrok"
    [] outcome = "parse" -> "Parse error"
    [] outcome = "error" -> "ngrok API error"
    [] OTHER -> "Timeout connecting to ngrok API"

\* createTunnel(port) is called: http.get of the tunnel list is sent
CallStarts(c, port) ==
  /\ alive
  /\ calls[c].pc = "idle"
  /\ \A d \in Calls : d < c => calls[d].pc # "idle"
  /\ calls' = [calls EXCEPT ![c] =
                 [noCall EXCEPT !.pc = "list", !.port = port,
                                !.prior = recorded(activeTunnels, port)]]
  /\ UNCHANGED <<agentTunnels, activeTunnels, lastReturn, tunnelOnly>>

\* A call whose promise is settled on success only
returnsOnSuccessOnly(c, result) ==
  IF result.success
  THEN /\ calls' = [calls EXCEPT ![c] = noCall]
       /\ lastReturn' = [port |-> calls[c].port, result |-> result]
  ELSE UNCHANGED <<calls, lastReturn>>

\* The call returns result to its caller
returns(c, result) ==
  /\ calls' = [calls EXCEPT ![c] = noCall]
  /\ lastReturn' = [port |-> calls[c].port, result |-> result]

\* getNgrokTunnelUrl's promise resolves, with the URL found in the agent's
\* list or with null; createTunnel goes on to its first return or to the POST
ListAnswered(c, outcome) ==
  /\ alive
  /\ calls[c].pc = "list"
  /\ LET existingUrl == IF outcome = "ok" THEN findTunnel(agentTunnels, calls[c].port)
                        ELSE noUrl
     IN IF existingUrl # noUrl
        THEN /\ activeTunnels' = mapSet(activeTunnels, calls[c].port, existingUrl)
             /\ returns(c, tunnelResult(TRUE, existingUrl, "Tunnel already exists"))
        ELSE /\ calls' = [calls EXCEPT ![c].pc = "post", ![c].posts = calls[c].posts + 1]
             /\ UNCHANGED <<activeTunnels, lastReturn>>
  /\ UNCHANGED <<agentTunnels, tunnelOnly>>

\* The POST of call c ends: the agent has handled it and its answer is read
\* (res.on('end')), the request fails (req.on('error')), or the timeout set by
\* req.setTimeout(5000) comes first.  The agent starts a tunnel only under a
\* name it does not hold yet.  It lists the new tunnel with its https URL and
\* answers with that or with the http URL of the tunnel's http twin (the twin
\* itself, which no find matches, is left out of the list).
PostAnswered(c, outcome) ==
  /\ alive
  /\ calls[c].pc = "post"
  /\ startsTunnel(outcome) =>
       \A k \in DOMAIN agentTunnels : agentTunnels[k].name # tunnelName(calls[c].port)
  /\ agentTunnels' =
       IF startsTunnel(outcome)
       THEN Append(agentTunnels,
                   agentTunnel(tunnelName(calls[c].port), calls[c].port, "https",
                               tunnelName(calls[c].port)))
       ELSE agentTunnels
  /\ IF outcome \in {"https", "http"}
     THEN LET url == preferHttps([scheme |-> outcome, host |-> tunnelName(calls[c].port)])
          IN /\ activeTunnels' = mapSet(activeTunnels, calls[c].port, url)
             /\ returns(c, tunnelResult(TRUE, url, ""))
     ELSE /\ returns(c, tunnelResult(FALSE, noUrl, postMessage(outcome)))
          /\ UNCHANGED activeTunnels
  /\ UNCHANGED tunnelOnly

TunnelInit ==
  /\ agentTunnels \in AgentConfigs
  /\ activeTunnels = {}
  /\ calls = [c \in Calls |-> noCall]
  /\ lastReturn = noReturn

TunnelNext ==
  \/ \E c \in Calls, port \in TunnelPorts : CallStarts(c, port)
  \/ \E c \in Calls, outcome \in ListOutcomes : ListAnswered(c, outcome)
  \/ \E c \in Calls, outcome \in PostOutcomes : PostAnswered(c, outcome)

---------------------------------------------------------------------------
(* Startup: checkExistingNgrok, killExistingNgrok, startNgrok and main,    *)
(* server.js 958-1099                                                      *)

\* ngrokConfig.domain: the host of the configured public domain
domain == <<"main", 0>>

\* The tunnels the agent holds when the gateway starts: none; the gateway's
\* session; the same with an http URL; a session of the domain to another
\* port; a session to the gateway's port under another domain; someone
\* else's tunnel listed before the gateway's session
StartupConfigs ==
  { << >>,
    << agentTunnel(<<"main", 0>>, serverPort, "https", domain) >>,
    << agentTunnel(<<"main", 0>>, serverPort, "http", domain) >>,
    << agentTunnel(<<"main", 0>>, 3000, "https", domain) >>,
    << agentTunnel(<<"ext", 0>>, serverPort, "https", <<"ext", 0>>) >>,
    << agentTunnel(<<"ext", 0>>, 3000, "https", <<"ext", 0>>),
       agentTunnel(<<"main", 0>>, serverPort, "https", domain) >> }

\* t.public_url?.includes(ngrokConfig.domain); the hosts of the model hold
\* the domain only when they are the domain
urlIncludes(t, d) == t.url.host = d

\* tunnels.tunnels?.find(t => addr includes :serverPort && public_url includes
\* the domain): the position of the tunnel found, 0 when there is none
RECURSIVE existingTunnelFrom(_, _)
existingTunnelFrom(tunnels, k) ==
  IF k > Len(tunnels) THEN 0
  ELSE IF addrIncludes(tunnels[k], serverPort) /\ urlIncludes(tunnels[k], domain)
  THEN k
  ELSE existingTunnelFrom(tunnels, k + 1)

\* The find as a look at the first tunnel only
existingTunnelFirstOnly(tunnels) ==
  IF Len(tunnels) > 0 /\ existingTunnelFrom(tunnels, 1) = 1 THEN 1 ELSE 0

existingTunnel(tunnels) == existingTunnelFrom(tunnels, 1)

\* What becomes of GET /api/tunnels at startup: the agent's list arrives; a
\* JSON body without a tunnels field; a body that is no JSON; the connection
\* fails (no agent runs); no answer within 1000 ms
CheckOutcomes == {"ok", "noList", "parse", "error", "timeout"}

\* checkExistingNgrok that never reports other tunnels
checkExistingNgrokNoOthers(tunnels, outcome) ==
  [exists |-> outcome = "ok" /\ existingTunnel(tunnels) # 0,
   url |-> IF outcome = "ok" /\ existingTunnel(tunnels) # 0
           THEN tunnels[existingTunnel(tunnels)].url ELSE noUrl,
   hasOtherTunnels |-> FALSE]

\* The value checkExistingNgrok's promise resolves to; a missing
\* hasOtherTunnels, and undefined > 0, count as false
checkExistingNgrok(tunnels, outcome) ==
  IF outcome = "ok" /\ existingTunnel(tunnels) # 0
  THEN [exists |-> TRUE, url |-> tunnels[existingTunnel(tunnels)].url,
        hasOtherTunnels |-> FALSE]
  ELSE [exists |-> FALSE, url |-> noUrl,
        hasOtherTunnels |-> outcome = "ok" /\ Len(tunnels) > 0]

\* execSync('pkill -f ngrok'): the agent is killed, or pkill exits with an
\* error (nothing matched, 5000 ms passed) and execSync throws
PkillOutcomes == {"killed", "throws"}

\* fs.writeFileSync of the traffic policy
WriteOutcomes == {"written", "throws"}

\* startNgrok before it is called
noNgrok ==
  [promise |-> "none", timer |-> FALSE, child |-> "none", reason |-> "",
   events |-> 0, killed |-> FALSE]

\* main's catch that keeps the gateway running
mainCatchKeepsRunning ==
  /\ mainPc' = "running"
  /\ UNCHANGED <<alive, exitCode>>

\* main's catch: console.error(`Error: ${err.message}`), process.exit(1)
mainCatch ==
  /\ alive' = FALSE
  /\ exitCode' = 1
  /\ mainPc' = "exited"

\* main calls startNgrok and awaits its promise: the executor writes the
\* policy file, spawns the agent and sets the 3000 ms timer; a throw of the
\* executor rejects the promise
startNgrok(write) ==
  /\ starts' = starts + 1
  /\ IF write = "throws"
     THEN /\ ngrok' = [noNgrok EXCEPT !.promise = "rejected", !.reason = "write failed"]
          /\ mainCatch
     ELSE /\ ngrok' = [noNgrok EXCEPT !.promise = "pending", !.timer = TRUE,
                                      !.child = "running"]
          /\ mainPc' = "start"
          /\ UNCHANGED <<alive, exitCode>>

\* main is called: server.listen, then http.get of the agent's tunnel list
MainStarts ==
  /\ alive
  /\ mainPc = "off"
  /\ mainPc' = "check"
  /\ UNCHANGED <<alive, reported, kills, starts, ngrok, ngrokProcess, exitCode,
                 agentTunnels, startupOnly>>

\* checkExistingNgrok's promise resolves and main goes on to its next await:
\* reuse, or killExistingNgrok when the agent has other tunnels, then
\* startNgrok at once when the kill threw
CheckAnswered(outcome, pkill, write) ==
  /\ alive
  /\ mainPc = "check"
  /\ reported' = IF outcome = "ok" THEN agentTunnels ELSE << >>
  /\ LET existing == checkExistingNgrok(agentTunnels, outcome)
     IN IF existing.exists
        THEN /\ mainPc' = "running"
             /\ UNCHANGED <<alive, kills, starts, ngrok, exitCode, agentTunnels>>
        ELSE IF existing.hasOtherTunnels
        THEN /\ kills' = kills + 1
             /\ IF pkill = "killed"
                THEN /\ agentTunnels' = << >>
                     /\ mainPc' = "settle"
                     /\ UNCHANGED <<alive, starts, ngrok, exitCode>>
                ELSE /\ startNgrok(write)
                     /\ UNCHANGED agentTunnels
        ELSE /\ startNgrok(write)
             /\ UNCHANGED <<kills, agentTunnels>>
  /\ UNCHANGED <<ngrokProcess, startupOnly>>

\* The 500 ms of killExistingNgrok have passed: main goes on to startNgrok
SettleElapsed(write) ==
  /\ alive
  /\ mainPc = "settle"
  /\ startNgrok(write)
  /\ UNCHANGED <<reported, kills, ngrokProcess, agentTunnels, startupOnly>>

\* The events of the agent's child process that startNgrok listens to:
\* 'error' with code ENOENT or another code, 'data' on stderr with or
\* without one of the markers ERR_NGROK, authentication failed, error, and
\* 'close' with code 0, null (ended by a signal) or 1
ChildEvents ==
  {"ENOENT", "EACCES", "stderrMarker", "stderrPlain", "close0", "closeNull", "close1"}

\* The events whose listener calls clearTimeout and reject
rejecting(event) == event \in {"ENOENT", "EACCES", "stderrMarker", "close1"}

\* The message of the Error the listener rejects with
rejectMessage(event) ==
  CASE event = "ENOENT" -> "ngrok not found"
    [] event = "EACCES" -> "Failed to start ngrok"
    [] event = "stderrMarker" -> "ngrok error"
    [] OTHER -> "ngrok exited with code"

\* The child after the event: 'error' means it did not start, 'close' that
\* it has ended
childAfter(event) ==
  CASE event \in {"ENOENT", "EACCES"} -> "failed"
    [] event \in {"close0", "closeNull", "close1"} -> "closed"
    [] OTHER -> "running"

\* A listener of the child runs.  reject settles the promise only while it is
\* pending, and main, which awaits it, then runs its catch
ChildEvent(event) ==
  /\ alive
  /\ ngrok.child = "running"
  /\ ngrok.events < MaxChildEvents
  /\ IF rejecting(event) /\ ngrok.promise = "pending"
     THEN /\ ngrok' = [ngrok EXCEPT !.promise = "rejected", !.timer = FALSE,
                                    !.reason = rejectMessage(event),
                                    !.child = childAfter(event),
                                    !.events = ngrok.events + 1]
          /\ mainCatch
     ELSE /\ ngrok' = [ngrok EXCEPT !.timer = ngrok.timer /\ ~rejecting(event),
                                    !.child = childAfter(event),
                                    !.events = ngrok.events + 1]
          /\ UNCHANGED <<alive, exitCode, mainPc>>
  /\ UNCHANGED <<reported, kills, starts, ngrokProcess, agentTunnels, startupOnly>>

\* The 3000 ms timer of startNgrok runs out: the promise resolves with the
\* child, and main installs the signal handlers
GraceElapsed ==
  /\ alive
  /\ ngrok.timer
  /\ ngrok' = [ngrok EXCEPT !.promise = "resolved", !.timer = FALSE]
  /\ ngrokProcess' = "child"
  /\ mainPc' = "running"
  /\ UNCHANGED <<alive, reported, kills, starts, exitCode, agentTunnels, startupOnly>>

\* A shutdown that ends the agent whoever started it
shutdownKillsAny(process) == TRUE

\* shutdown's if (ngrokProcess) ngrokProcess.kill()
shutdownKills(process) == process # "none"

\* SIGINT or SIGTERM arrives.  Once main has installed shutdown it kills the
\* child it started, if any, and exits with 0; before that the signal ends
\* the process
Signal ==
  /\ alive
  /\ mainPc \in {"check", "settle", "start", "running"}
  /\ alive' = FALSE
  /\ IF mainPc = "running"
     THEN /\ ngrok' = [ngrok EXCEPT !.killed = shutdownKills(ngrokProcess)]
          /\ exitCode' = 0
          /\ mainPc' = "exited"
     ELSE /\ mainPc' = "killed"
          /\ UNCHANGED <<ngrok, exitCode>>
  /\ UNCHANGED <<reported, kills, starts, ngrokProcess, agentTunnels, startupOnly>>

StartupInit ==
  /\ alive = TRUE
  /\ agentTunnels \in StartupConfigs
  /\ mainPc = "off"
  /\ reported = << >>
  /\ kills = 0
  /\ starts = 0
  /\ ngrok = noNgrok
  /\ ngrokProcess = "none"
  /\ exitCode = null

StartupNext ==
  \/ MainStarts
  \/ \E outcome \in CheckOutcomes, pkill \in PkillOutcomes, write \in WriteOutcomes :
       CheckAnswered(outcome, pkill, write)
  \/ \E write \in WriteOutcomes : SettleElapsed(write)
  \/ \E event \in ChildEvents : ChildEvent(event)
  \/ GraceElapsed
  \/ Signal

---------------------------------------------------------------------------
(* Kill and quick launch: killByPort, launchCommand and their routes,      *)
(* server.js 115-129, 262-285 and 792-825                                  *)

\* An entry of config.quickLaunch: its name and the executable its command
\* starts with.  "node" can be started, "nosuch" is no file on the PATH, ""
\* is an empty command
command(name, exe) == [name |-> name, exe |-> exe]

\* quickLaunch[index] of an index past the end: undefined
noCommand == command("", "undefined")

\* The configurations of quickLaunch
QuickLaunchConfigs ==
  { << >>,
    << command("web", "node") >>,
    << command("web", "node"), command("gone", "nosuch") >>,
    << command("blank", ""), command("web", "node") >> }

\* quickLaunch[index] read as if the first entry had index 1
commandAtOneBased(list, index) ==
  IF index \in 1..Len(list) THEN list[index] ELSE noCommand

\* quickLaunch[index]: the entries have the indexes 0..length-1
commandAt(list, index) ==
  IF index \in 0..(Len(list) - 1) THEN list[index + 1] ELSE noCommand

\* What spawn(executable, args, ...) does: it throws on an empty file name,
\* it returns a child that emits 'error' when the file cannot be started,
\* and a child that runs otherwise
spawnOutcome(exe) ==
  CASE exe = "" -> "throws"
    [] exe = "nosuch" -> "error"
    [] OTHER -> "started"

\* launchCommand(index): its result and what its spawn call did, "none"
\* when it made no call
launchCommand(index) ==
  LET cmd == commandAt(quickLaunch, index)
  IN IF cmd = noCommand
     THEN [success |-> FALSE, message |-> "Invalid command index", spawn |-> "none"]
     ELSE IF spawnOutcome(cmd.exe) = "throws"
     THEN [success |-> FALSE, message |-> "Failed to start", spawn |-> "throws"]
     ELSE [success |-> TRUE, message |-> "Started", spawn |-> spawnOutcome(cmd.exe)]

\* The processes lsof can list for a port: a service of the user, a process
\* of another user, the gateway itself
Pids == {"svc", "root", "self"}

\* What execSync(`lsof -i :${port} -P -n -t`) returns: it throws (lsof exits
\* with 1 when it finds nothing, is missing, or 5000 ms pass), or it returns
\* the PIDs of the processes with a socket on the port
LsofResults ==
  { [ok |-> FALSE, pids |-> << >>] } \cup
  { [ok |-> TRUE, pids |-> pids] :
      pids \in { <<"svc">>, <<"svc", "root">>, <<"root", "svc">>, <<"self">>,
                 <<"svc", "self">> } }

\* The loop with the failures of kill ignored
killFromIgnoringFailures(pids, k, done) ==
  LET all == { pids[j] : j \in k..Len(pids) }
  IN [end |-> IF "self" \in all THEN "dead" ELSE "done",
      killed |-> done \cup (all \ {"root"})]

\* The for loop over pids from position k on: execSync(`kill -9 ${pid}`)
\* throws for a process of another user and ends the gateway when the PID is
\* its own
RECURSIVE killFrom(_, _, _)
killFrom(pids, k, done) ==
  IF k > Len(pids) THEN [end |-> "done", killed |-> done]
  ELSE IF pids[k] = "root" THEN [end |-> "throws", killed |-> done]
  ELSE IF pids[k] = "self" THEN [end |-> "dead", killed |-> done \cup {"self"}]
  ELSE killFrom(pids, k + 1, done \cup {pids[k]})

\* killByPort(port): how the call ends, the processes it killed and the
\* result it returns
killByPort(lsof) ==
  IF ~lsof.ok
  THEN [end |-> "throws", killed |-> {}, success |-> FALSE,
        message |-> "Failed to kill process on port", cause |-> "lsof"]
  ELSE LET loop == killFrom(lsof.pids, 1, {})
       IN IF loop.end = "done"
          THEN [end |-> "done", killed |-> loop.killed, success |-> TRUE,
                message |-> "Killed process(es) on port", cause |-> ""]
          ELSE [end |-> loop.end, killed |-> loop.killed, success |-> FALSE,
                message |-> "Failed to kill process on port",
                cause |-> IF loop.end = "throws" THEN "kill" ELSE ""]

\* The last path segments of the kill and launch requests
KillSegments == {"3000", "8888", "abc"}
LaunchSegments == {"0", "1", "2", "1abc", "abc", "70000"}

\* POST /api/<name>/<seg>
apiPost(name, seg) == [method |-> "POST", path |-> <<"api", name, seg>>, search |-> ""]

\* No kill or launch request handled yet.  n counts the requests, status is
\* 0 when the request got no answer, cause names what failed in the
\* operating system: "spawn", "lsof", "kill", or "" when nothing did
noApi ==
  [n |-> 0, op |-> "", arg |-> NaN, status |-> 0, success |-> FALSE,
   message |-> "", cause |-> ""]

\* The handler answers POST /api/launch/<seg>: 400 without a number, the
\* result of launchCommand otherwise
PostLaunch(seg) ==
  /\ alive
  /\ ~childError
  /\ lastApi.n < MaxApiCalls
  /\ LET r == route(apiPost("launch", seg), "")
         result == launchCommand(r.arg)
     IN IF r.status = 400
        THEN /\ lastApi' = [n |-> lastApi.n + 1, op |-> "launch", arg |-> r.arg,
                            status |-> 400, success |-> FALSE,
                            message |-> "Invalid command index", cause |-> ""]
             /\ UNCHANGED <<spawnCalls, childError>>
        ELSE /\ lastApi' = [n |-> lastApi.n + 1, op |-> "launch", arg |-> r.arg,
                            status |-> 200, success |-> result.success,
                            message |-> result.message,
                            cause |-> IF result.spawn \in {"throws", "error"}
                                      THEN "spawn" ELSE ""]
             /\ spawnCalls' = IF result.spawn = "none" THEN spawnCalls ELSE spawnCalls + 1
             /\ childError' = (result.spawn = "error")
  /\ UNCHANGED <<alive, quickLaunch, killed, lastGet, lifecycleOnly>>

\* The 'error' event of a child that could not be started is emitted on the
\* next tick, before another request is handled.  launchCommand has set no
\* listener for it, so it is thrown as an uncaught exception
ChildErrorEmitted ==
  /\ alive
  /\ childError
  /\ childError' = FALSE
  /\ alive' = FALSE
  /\ UNCHANGED <<quickLaunch, spawnCalls, killed, lastApi, lastGet, lifecycleOnly>>

\* The handler answers POST /api/kill/<seg>: 400 without a number, the
\* result of killByPort otherwise.  lsof lists the gateway for its own port.
\* A gateway that kills itself answers nothing
PostKill(seg, lsof) ==
  /\ alive
  /\ ~childError
  /\ lastApi.n < MaxApiCalls
  /\ LET r == route(apiPost("kill", seg), "")
         result == killByPort(lsof)
     IN /\ (r.arg = serverPort /\ lsof.ok) => \E k \in DOMAIN lsof.pids : lsof.pids[k] = "self"
        /\ IF r.status = 400
           THEN /\ lastApi' = [n |-> lastApi.n + 1, op |-> "kill", arg |-> r.arg,
                               status |-> 400, success |-> FALSE,
                               message |-> "Invalid port", cause |-> ""]
                /\ UNCHANGED <<alive, killed>>
           ELSE IF result.end = "dead"
           THEN /\ lastApi' = [noApi EXCEPT !.n = lastApi.n + 1, !.op = "kill", !.arg = r.arg]
                /\ killed' = killed \cup result.killed
                /\ alive' = FALSE
           ELSE /\ lastApi' = [n |-> lastApi.n + 1, op |-> "kill", arg |-> r.arg,
                               status |-> 200, success |-> result.success,
                               message |-> result.message, cause |-> result.cause]
                /\ killed' = killed \cup result.killed
                /\ UNCHANGED alive
  /\ UNCHANGED <<quickLaunch, spawnCalls, childError, lastGet, lifecycleOnly>>

\* No GET /api/commands or /api/tunnels answered yet
noGet == [route |-> "", commands |-> << >>, tunnels |-> {}]

\* JSON.stringify(quickLaunch): the array of the configured entries, each
\* with every field it has in the configuration.  The field exe of the model
\* is the entry's command
GetCommands ==
  /\ alive
  /\ ~childError
  /\ lastGet' = [noGet EXCEPT !.route = "commands", !.commands = quickLaunch]
  /\ UNCHANGED <<alive, quickLaunch, spawnCalls, childError, killed, lastApi, lifecycleOnly>>

\* GET /api/tunnels: tunnels[port] = data.url for every entry of activeTunnels
GetTunnels ==
  /\ alive
  /\ ~childError
  /\ lastGet' = [noGet EXCEPT !.route = "tunnels", !.tunnels = activeTunnels]
  /\ UNCHANGED <<alive, quickLaunch, spawnCalls, childError, killed, lastApi, lifecycleOnly>>

LifecycleInit ==
  /\ quickLaunch \in QuickLaunchConfigs
  /\ spawnCalls = 0
  /\ childError = FALSE
  /\ killed = {}
  /\ lastApi = noApi
  /\ lastGet = noGet

LifecycleNext ==
  \/ \E seg \in LaunchSegments : PostLaunch(seg)
  \/ ChildErrorEmitted
  \/ \E seg \in KillSegments, lsof \in LsofResults : PostKill(seg, lsof)
  \/ GetCommands

---------------------------------------------------------------------------
(* The state each part starts in when another part's specification runs *)

RouterIdle == RouterInit

ScanIdle ==
  /\ portRanges = << >>
  /\ listening = {}
  /\ portsToScan = << >>
  /\ scanPc = "idle"
  /\ scanI = 0
  /\ pending = {}
  /\ checks = << >>
  /\ results = << >>
  /\ isOpenAt = {}

ProbeIdle == ProbeInit

TunnelIdle ==
  /\ agentTunnels = << >>
  /\ activeTunnels = {}
  /\ calls = [c \in Calls |-> noCall]
  /\ lastReturn = noReturn

\* main has reused a session of the agent and handled no signal
StartupIdle ==
  /\ mainPc = "running"
  /\ reported = << >>
  /\ kills = 0
  /\ starts = 0
  /\ ngrok = noNgrok
  /\ ngrokProcess = "none"
  /\ exitCode = null

\* No quick-launch command is configured and no kill or launch was asked for
LifecycleIdle ==
  /\ quickLaunch = << >>
  /\ spawnCalls = 0
  /\ childError = FALSE
  /\ killed = {}
  /\ lastApi = noApi
  /\ lastGet = noGet

---------------------------------------------------------------------------
(* The specifications *)

Init == RouterInit /\ ScanIdle /\ ProbeIdle /\ TunnelIdle /\ StartupIdle /\ LifecycleIdle

Next == RouterNext

Spec == Init /\ [][Next]_vars

InitSelect == Init

NextSelect ==
  \/ \E req \in SelectRequests : HandleRequest(req)
  \/ ClearCookie

SpecSelect == InitSelect /\ [][NextSelect]_vars

InitScan == RouterIdle /\ ScanInit /\ ProbeIdle /\ TunnelIdle /\ StartupIdle /\ LifecycleIdle

NextScan == ScanNext

SpecScan == InitScan /\ [][NextScan]_vars

InitProbe ==
  /\ RouterIdle /\ ProbeInit /\ TunnelIdle /\ StartupIdle /\ LifecycleIdle
  /\ portRanges = << >> /\ portsToScan = << >> /\ scanPc = "idle" /\ scanI = 0 /\ pending = {}
  /\ checks = << >> /\ results = << >> /\ isOpenAt = {}
  /\ listening \in SUBSET ProbePorts

NextProbe == ProbeNext

\* The event loop runs a timer that has run out: the 'timeout' event of a socket
\* that is still connecting is eventually emitted
SpecProbe ==
  InitProbe /\ [][NextProbe]_vars /\ \A i \in Probes : WF_vars(ProbeTimeout(i))

InitTunnel == RouterIdle /\ ScanIdle /\ ProbeIdle /\ TunnelInit /\ StartupIdle /\ LifecycleIdle

NextTunnel == TunnelNext

SpecTunnel == InitTunnel /\ [][NextTunnel]_vars

\* No createTunnel call is in progress
NoCall == \A c \in Calls : calls[c].pc = "idle"

\* The calls of createTunnel follow one another
NextTunnelFair ==
  \/ \E port \in TunnelPorts : NoCall /\ CallStarts(1, port)
  \/ \E outcome \in ListOutcomes : ListAnswered(1, outcome)
  \/ \E outcome \in PostOutcomes : PostAnswered(1, outcome)

\* Each request to the agent ends: with its answer, with an error of the
\* connection, or with the timeout set on it (2000 ms for the list, 5000 ms
\* for the POST), which the event loop eventually runs
SpecTunnelFair ==
  /\ InitTunnel
  /\ [][NextTunnelFair]_vars
  /\ WF_vars(\E outcome \in ListOutcomes : ListAnswered(1, outcome))
  /\ WF_vars(\E outcome \in PostOutcomes : PostAnswered(1, outcome))

InitStartup ==
  /\ RouterIdle /\ ScanIdle /\ ProbeIdle /\ LifecycleIdle
  /\ activeTunnels = {} /\ calls = [c \in Calls |-> noCall] /\ lastReturn = noReturn
  /\ StartupInit

NextStartup == StartupNext

SpecStartup == InitStartup /\ [][NextStartup]_vars

InitLifecycle ==
  RouterIdle /\ ScanIdle /\ ProbeIdle /\ TunnelIdle /\ StartupIdle /\ LifecycleInit

NextLifecycle == LifecycleNext

SpecLifecycle == InitLifecycle /\ [][NextLifecycle]_vars

\* createTunnel calls that follow one another, and GET /api/tunnels at any
\* moment between their steps
NextTunnels ==
  \/ NextTunnelFair
  \/ GetTunnels

SpecTunnels == InitTunnel /\ [][NextTunnels]_vars

InitApi ==
  RouterIdle /\ ScanIdle /\ ProbeIdle /\ TunnelInit /\ StartupIdle /\ LifecycleInit

\* Each route answers at most one request, the tunnel route on behalf of one
\* createTunnel call; the handlers of the other routes run from start to end
\* without an await
NextApi ==
  \/ \E seg \in LaunchSegments : lastApi = noApi /\ PostLaunch(seg)
  \/ \E seg \in KillSegments, lsof \in LsofResults : lastApi = noApi /\ PostKill(seg, lsof)
  \/ ChildErrorEmitted
  \/ lastGet = noGet /\ GetCommands
  \/ lastGet = noGet /\ GetTunnels
  \/ \E port \in TunnelPorts : lastReturn = noReturn /\ NoCall /\ CallStarts(1, port)
  \/ \E outcome \in ListOutcomes : ListAnswered(1, outcome)
  \/ \E outcome \in PostOutcomes : PostAnswered(1, outcome)

SpecApi == InitApi /\ [][NextApi]_vars

---------------------------------------------------------------------------
(* Properties of the request handler *)

\* The ports http.request connects to: a selection of one of them is usable
TcpPorts == 1..MaxTcpPort

\* A path the handler forwards when a target is selected: /p, /p/..., and any
\* other path except "/", /api/... and a /proxy/<digits> selection path
Forwardable(path) ==
  /\ ~proxyMatch(path)
  /\ path # <<"">>
  /\ ~startsWith1(path, "api")

\* The step is the handling of req, and it sends an upstream request to port
ForwardsTo(req, port) ==
  /\ HandleRequest(req)
  /\ \E i \in Slots : slots[i].phase = "free" /\ slots'[i] = proxyRequest(port)

\* C2 as stated: once /proxy/P has set the selection cookie, every request
\* carrying it, to any path other than a /proxy/<port> selection path, is
\* forwarded to 127.0.0.1:P
C2_AnyBarePathForwarded ==
  [][\A req \in Requests :
       (HandleRequest(req) /\ selected # null /\ ~proxyMatch(req.path))
         => ForwardsTo(req, selected)]_vars

\* C2 as amended: once /proxy/P has set the selection cookie for a port P in
\* 1..65535, every request carrying it to /p, /p/... or another path that is
\* neither "/", nor under /api/, nor a /proxy/<port> selection path, is
\* forwarded to 127.0.0.1:P, until the cookie is cleared or overwritten
C2_SelectionForwarded ==
  [][\A req \in Requests :
       (HandleRequest(req) /\ selected \in TcpPorts /\ Forwardable(req.path))
         => ForwardsTo(req, selected)]_vars

\* A bare-path request was forwarded to the port selected through /proxy/03000/...
C2_Witness ==
  /\ last.selected = 3000
  /\ last.req.path = <<"favicon.ico">>
  /\ last.result.kind = "forward"
  /\ \E i \in Slots : slots[i].phase = "upstream" /\ slots[i].port = 3000

\* C8: a forwarded request whose upstream refused the connection is answered
\* with status 502, a body carrying the connection error's text, after exactly
\* one upstream request
C8_RefusedGives502Once ==
  \A i \in Slots :
    (slots[i].err = "ECONNREFUSED" \/ slots[i].tries > 1) =>
      /\ slots[i].phase = "done"
      /\ slots[i].status = 502
      /\ slots[i].body = <<"Proxy error: ", "ECONNREFUSED">>
      /\ slots[i].tries = 1

\* A request was answered 502 after its upstream refused the connection
C8_Witness ==
  \E i \in Slots :
    slots[i].phase = "done" /\ slots[i].err = "ECONNREFUSED" /\ slots[i].status = 502

\* C9 as stated: an upstream error of one forwarded request, before or after
\* the upstream's headers were relayed, leaves the gateway running
C9_UpstreamErrorIsolated ==
  \A i \in Slots : slots[i].err # "" => alive

\* The latest request was a selection request /proxy/P...
Selecting == last.req # noRequest /\ proxyMatch(last.req.path)

\* The answer to the latest request is the redirect of a selection: 302, the
\* Location /p<subpath><query> with / for a missing subpath, a Set-Cookie
\* header, and no upstream request
Redirected ==
  /\ last.result.kind = "select"
  /\ last.result.status = 302
  /\ last.result.location =
       <<"p">> \o (IF Len(last.req.path) = 2 THEN <<"">>
                   ELSE SubSeq(last.req.path, 3, Len(last.req.path)))
  /\ last.result.locSearch = last.req.search
  /\ last.result.setCookie # ""
  /\ last.result.port = NaN
  /\ \A i \in Slots : slots[i].phase = "free"

\* The selection the cookie of the latest answer records is the number P
\* of the request: a request that sends the cookie back is handled with P
RecordsP == cookiePort(last.result.setCookie) = parseInt(last.req.path[2])

\* C13 as stated: every request /proxy/P<subpath>?<query> is answered with
\* 302, a cookie that records exactly P, the Location /p<subpath>?<query>,
\* and is not forwarded
C13_SelectionRedirects == Selecting => (Redirected /\ RecordsP)

\* C13 as amended: the same, with the cookie recording exactly P for every
\* P that JavaScript's numbers hold exactly and write in decimal digits
\* (every P up to 2^53 - 1, so every port number)
C13_SafeSelectionRedirects ==
  Selecting =>
    /\ Redirected
    /\ parseInt(last.req.path[2]) < exp21 => RecordsP

\* C13's case: POST /proxy/03000/static/app.js?v=1 after a selection of
\* 8080 was answered with the cookie 3000 and the Location
\* /p/static/app.js?v=1
C13_Witness ==
  /\ last.req.path = <<"proxy", "03000", "static", "app.js">>
  /\ last.req.search = "?v=1"
  /\ last.cookie = "8080"
  /\ cookie = "3000"
  /\ last.result.location = <<"p", "static", "app.js">>

\* The latest request carried no selection cookie and named no port
NoSelection ==
  /\ last.req # noRequest
  /\ last.cookie = ""
  /\ ~proxyMatch(last.req.path)

\* A /p or /p/... path
Canonical(path) == path = <<"p">> \/ (Len(path) >= 2 /\ path[1] = "p")

\* C12: a request without selection cookie and without explicit port is not
\* forwarded: it is answered with 400 'No proxy target set' on a /p path and
\* by the gateway's own routes (an API answer, the page, 404) on any other
\* path, and the step that handles it takes no slot for an upstream request
C12_NoSelectionNeverForwarded ==
  /\ [](NoSelection =>
         /\ last.result.kind \notin {"forward", "throw"}
         /\ last.result.port = NaN
         /\ IF Canonical(last.req.path)
            THEN /\ last.result.status = 400
                 /\ last.result.body = <<"No proxy target set">>
            ELSE last.result.kind \in {"api", "page", "notFound"})
  /\ [][(\E i \in Slots : slots[i].phase = "free" /\ slots'[i].phase # "free")
          => last'.cookie # ""]_vars

\* C12's case: /p/app.js is refused after the client cleared its cookie,
\* while a request forwarded earlier still waits for its upstream
C12_Witness ==
  /\ NoSelection
  /\ last.req.path = <<"p", "app.js">>
  /\ last.result.status = 400
  /\ \E i \in Slots : slots[i].phase = "upstream"

\* C26: the upstream request of a forwarded request has the client's method
\* and query, the Host of the selected port, and the equivalent path: / for
\* /p, /<x> for /p/<x>, the path itself for a bare path; the status relayed to
\* the client is the upstream's, and the gateway adds no body of its own
C26_ForwardedUnchanged ==
  /\ [](last.result.kind = "forward" =>
          /\ last.result.umethod = last.req.method
          /\ last.result.usearch = last.req.search
          /\ last.result.port = cookiePort(last.cookie)
          /\ last.result.uhost = last.result.port
          /\ last.result.upath =
               (IF last.req.path = <<"p">> THEN <<"">>
                ELSE IF last.req.path[1] = "p" THEN Tail(last.req.path)
                ELSE last.req.path)
          /\ last.result.status = 0
          /\ last.result.setCookie = "")
  /\ [][\A i \in Slots, c \in UpstreamStatuses :
          UpstreamResponds(i, c) =>
            /\ slots'[i].status = c
            /\ slots'[i].body = << >>
            /\ slots'[i].port = slots[i].port]_vars
  /\ [](\A i \in Slots :
          (slots[i].phase \in {"relaying", "done"} /\ slots[i].err = "") =>
            (slots[i].status \in UpstreamStatuses /\ slots[i].body = << >>))

\* C26's case: POST /static/app.js?v=1 was forwarded to the selected port and
\* an upstream's answer has been relayed to its end
C26_Witness ==
  /\ last.result.kind = "forward"
  /\ last.req = [method |-> "POST", path |-> <<"static", "app.js">>, search |-> "?v=1"]
  /\ last.result.umethod = "POST"
  /\ last.result.port = 3000
  /\ \E i \in Slots : slots[i].phase = "done" /\ slots[i].status = 200

\* A path of the gateway's own routes: /api/..., the root path, /proxy/<port>...
OwnRoute(path) == startsWith1(path, "api") \/ path = <<"">> \/ proxyMatch(path)

\* C28: a request to /api/..., / or /proxy/<port>... is answered by the
\* gateway itself, with or without a selection cookie: no upstream request is
\* made for it, and every request that is forwarded has a /p path or another
\* bare path
C28_OwnRoutesNeverForwarded ==
  /\ []((last.req # noRequest /\ OwnRoute(last.req.path)) =>
          /\ last.result.kind \in {"api", "page", "notFound", "select"}
          /\ last.result.port = NaN)
  /\ [](last.result.kind \in {"forward", "throw"} => ~OwnRoute(last.req.path))
  /\ [][(last'.req # noRequest /\ OwnRoute(last'.req.path)) =>
          \A i \in Slots : slots[i].phase = "free" => slots'[i].phase = "free"]_vars

\* C28's case: with a selection cookie set, an unknown /api/ path was
\* answered 404 by the gateway
C28_Witness ==
  /\ last.cookie = "3000"
  /\ last.req.path = <<"api", "other">>
  /\ last.result.kind = "notFound"

---------------------------------------------------------------------------
(* Properties of scanPorts and checkPort *)

\* C1: the sequence scanPorts returns, and builds, never holds an entry for
\* the gateway's own port, whatever the ranges and the listeners
C1_OwnPortNeverListed ==
  \A k \in DOMAIN results : results[k].port # serverPort

\* A scan has returned other listening ports while the gateway's own port was
\* inside a configured range and had a listener
C1_Witness ==
  /\ scanPc = "done"
  /\ serverPort \in listening
  /\ \E k \in DOMAIN portsToScan : portsToScan[k] = serverPort
  /\ results # << >>

\* The ports of portsToScan from position k on that are not the gateway's
\* own and whose probe reported a listener, one for each occurrence
RECURSIVE ReportedFrom(_)
ReportedFrom(k) ==
  IF k > Len(portsToScan) THEN << >>
  ELSE (IF portsToScan[k] # serverPort /\ k \in isOpenAt
        THEN << portsToScan[k] >> ELSE << >>) \o ReportedFrom(k + 1)

\* C11: the sequence scanPorts returns holds one entry, with the port, a
\* process name and a PID or null, for each occurrence in the expanded
\* sequence of a port other than serverPort whose probe reported a listener,
\* in that order, and nothing else; without any listener it is empty
C11_OneEntryPerReportedListener ==
  scanPc = "done" =>
    /\ [k \in DOMAIN results |-> results[k].port] = ReportedFrom(1)
    /\ \A k \in DOMAIN results :
         results[k].name # "" /\ results[k] # nullEntry
    /\ listening = {} => results = << >>
    /\ (portRanges = << <<3000, 3000>> >> /\ isOpenAt = {1}) =>
         (Len(results) = 1 /\ results[1].port = 3000)

\* C11's case: the overlapping ranges with a listener on 3000 give two
\* entries for port 3000
C11_Witness ==
  /\ scanPc = "done"
  /\ Len(portRanges) = 2
  /\ Len(results) = 2
  /\ results[1].port = 3000
  /\ results[2].port = 3000

\* The state of one checkPort call agrees with its contract: it settled at
\* most once and through one call of resolve, never by rejecting; its value
\* is true exactly when the socket connected; and once the socket's timer has
\* run out it is no longer pending
ProbeSettlesRight(p) ==
  /\ ~p.rejected
  /\ p.resolveCalls <= 1
  /\ p.settled <=> (p.resolveCalls = 1)
  /\ p.settled => (p.value \in BOOLEAN /\ p.phase = "closed")
  /\ p.timerFired => p.settled
  /\ (p.settled /\ p.timerFired) => (p.value = FALSE)

\* C10: every checkPort call resolves, exactly once, to a boolean (true after
\* 'connect', false after 'timeout' or 'error'), never rejects and does not
\* stay pending once its timeout has passed
C10_ProbeAlwaysResolves ==
  /\ [](\A i \in Probes : ProbeSettlesRight(probes[i]))
  /\ [][\A i \in Probes :
          /\ (ProbeEvent(i, "connect") => probes'[i].settled /\ probes'[i].value = TRUE)
          /\ (ProbeEvent(i, "error") => probes'[i].settled /\ probes'[i].value = FALSE)
          /\ (ProbeEvent(i, "timeout") => probes'[i].settled /\ probes'[i].value = FALSE)
          /\ (probes[i].settled => probes'[i] = probes[i])]_vars
  /\ \A i \in Probes : (probes[i].phase = "connecting") ~> probes[i].settled

\* One probe resolved to true and another, of a port without a listener, to false
C10_Witness ==
  /\ \E i \in Probes : probes[i].settled /\ probes[i].value = TRUE
  /\ \E i \in Probes :
       probes[i].settled /\ probes[i].value = FALSE /\ probes[i].port \notin listening

\* C24: during a scan at most batchSize probes are outstanding, all of them
\* of the current batch, and a batch starts only when no probe of the batch
\* before it is outstanding
C24_AtMostOneBatchOutstanding ==
  /\ [](/\ Cardinality(pending) <= batchSize
        /\ pending \subseteq batchPositions(portsToScan, scanI))
  /\ [][(scanPc = "batch" /\ scanI' # scanI) =>
          (pending = {} /\ scanI' = scanI + batchSize)]_vars

\* C24's case: the second batch of a range wider than a batch is outstanding
C24_Witness ==
  /\ scanPc = "batch"
  /\ scanI = batchSize
  /\ Len(portsToScan) > batchSize
  /\ pending # {}

\* The entry of position k is that of a listener whose process was not found
UnknownEntry(entry, port) == entry = [port |-> port, name |-> "unknown", pid |-> null]

\* C25: a port whose probe found a listener gets an entry whether or not its
\* process is found: the entry of a failed resolution has the name 'unknown'
\* and no pid, the scan goes on, and the finished scan holds one entry for
\* each such port
C25_UnknownProcessStillListed ==
  /\ [][\A k \in pending :
          (k \notin pending' /\ k \in isOpenAt') =>
            /\ scanPc' = "batch"
            /\ \/ UnknownEntry(checks'[k], portsToScan[k])
               \/ checks'[k] = [port |-> portsToScan[k], name |-> "node", pid |-> 4242]]_vars
  /\ [](scanPc = "done" =>
          /\ Len(results) = Len(ReportedFrom(1))
          /\ \A k \in DOMAIN results :
               results[k].name = "unknown" => UnknownEntry(results[k], ReportedFrom(1)[k]))

\* C25's case: a finished scan lists one port with its process and another
\* whose process was not found
C25_Witness ==
  /\ scanPc = "done"
  /\ \E k \in DOMAIN results : UnknownEntry(results[k], 3000)
  /\ \E k \in DOMAIN results : results[k].port = 3051 /\ results[k].name = "node"

\* C27: in every state in which a probe's promise has settled, whether after
\* connect, timeout or error, the probe's socket has been destroyed; and a
\* step that settles the promise is a step that destroys the socket
C27_SettledProbeSocketDestroyed ==
  /\ [](\A i \in Probes :
          probes[i].settled => (probes[i].destroyed /\ probes[i].phase = "closed"))
  /\ [][\A i \in Probes :
          (~probes[i].settled /\ probes'[i].settled) =>
            (~probes[i].destroyed /\ probes'[i].destroyed)]_vars

\* C27's case: one probe has resolved to true after its connect, another to
\* false after its timeout, and both sockets are destroyed
C27_Witness ==
  /\ \E i \in Probes :
       probes[i].settled /\ probes[i].value = TRUE /\ probes[i].destroyed
  /\ \E i \in Probes :
       /\ probes[i].settled /\ probes[i].value = FALSE
       /\ probes[i].timerFired /\ probes[i].destroyed

---------------------------------------------------------------------------
(* Properties of createTunnel *)

\* Call c returns result in this step
Returns(c, result) ==
  /\ calls[c].pc # "idle"
  /\ calls'[c].pc = "idle"
  /\ lastReturn'.result = result

\* C3 as stated: a createTunnel call for a port that starts after an earlier
\* call for that port has returned success returns success with the same URL,
\* sends no create request to the agent, and leaves exactly one entry for the
\* port in activeTunnels
C3_SecondCallSameUrl ==
  [][\A c \in Calls :
       (calls[c].prior # noUrl /\ calls[c].pc # "idle" /\ calls'[c].pc = "idle") =>
         /\ Returns(c, tunnelResult(TRUE, calls[c].prior, "Tunnel already exists"))
         /\ calls[c].posts = 0
         /\ Cardinality({ e \in activeTunnels' : e[1] = calls[c].port }) = 1]_vars

\* Calls c and d are distinct calls for one port, both in progress
Interleaved(c, d) ==
  /\ c # d
  /\ calls[c].pc # "idle"
  /\ calls[d].pc # "idle"
  /\ calls[c].port = calls[d].port

\* C17 as stated: of two createTunnel calls for one port whose executions
\* interleave, at most one sends a create request to the agent, and a call
\* that returns while the other is in progress returns success with the URL
\* recorded for the port
C17_InterleavedCallsPostOnce ==
  [][\A c \in Calls, d \in Calls :
       Interleaved(c, d) =>
         /\ calls[c].posts + calls[d].posts <= 1
         /\ calls'[c].pc = "idle" =>
              /\ lastReturn'.result.success
              /\ lastReturn'.result.url = recorded(activeTunnels', calls[c].port)]_vars

\* C18 as stated: when a createTunnel call for a port returns success with
\* 'Tunnel already exists', the URL it has recorded for the port is the public
\* URL of a tunnel of the agent whose target port is exactly that port
C18_ExistingTunnelTargetsPort ==
  [][\A c \in Calls :
       (/\ calls[c].pc # "idle"
        /\ calls'[c].pc = "idle"
        /\ lastReturn'.result.message = "Tunnel already exists") =>
         /\ lastReturn'.result.success
         /\ recorded(activeTunnels', calls[c].port) = lastReturn'.result.url
         /\ \E k \in DOMAIN agentTunnels :
              /\ agentTunnels[k].port = calls[c].port
              /\ agentTunnels[k].url = lastReturn'.result.url]_vars

\* C19: every createTunnel call eventually returns, with a result that has a
\* boolean success and, on failure, a message; no step of a call other than
\* its return with success changes activeTunnels
C19_CallReturnsFailureKeepsMap ==
  /\ \A c \in Calls : (calls[c].pc # "idle") ~> (calls[c].pc = "idle")
  /\ [][\A c \in Calls :
          /\ (calls[c].pc # "idle" /\ calls'[c].pc = "idle") =>
               /\ lastReturn'.port = calls[c].port
               /\ lastReturn'.result.success \in BOOLEAN
               /\ ~lastReturn'.result.success =>
                    /\ lastReturn'.result.message # ""
                    /\ lastReturn'.result.url = noUrl
                    /\ activeTunnels' = activeTunnels
          /\ (calls'[c] # calls[c] /\ calls'[c].pc # "idle") =>
               activeTunnels' = activeTunnels]_vars

\* C19's case: a call for a port with a recorded tunnel has failed (the list
\* did not answer and the agent refused the POST) and the record is kept
C19_Witness ==
  /\ lastReturn.port = 3000
  /\ ~lastReturn.result.success
  /\ lastReturn.result.message = "agent msg"
  /\ recorded(activeTunnels, 3000) # noUrl
  /\ \A c \in Calls : calls[c].pc = "idle"

\* C20: activeTunnels holds at most one entry per port in every state, a
\* port that has an entry keeps one, and GET /api/tunnels answers with exactly
\* the port -> URL pairs the mapping holds at that moment
C20_OneEntryPerPortNeverRemoved ==
  /\ [](\A e \in activeTunnels, f \in activeTunnels : e[1] = f[1] => e = f)
  /\ [][/\ \A e \in activeTunnels : \E f \in activeTunnels' : f[1] = e[1]
        /\ lastGet' # lastGet =>
             (lastGet'.route = "tunnels" /\ lastGet'.tunnels = activeTunnels)]_vars

\* C20's case: the entry of port 300 was replaced by a later call, port 3000
\* has an entry too, and GET /api/tunnels has answered with both
C20_Witness ==
  /\ lastGet.route = "tunnels"
  /\ lastGet.tunnels = activeTunnels
  /\ recorded(activeTunnels, 300).host = tunnelName(300)
  /\ recorded(activeTunnels, 3000) # noUrl
  /\ \E k \in DOMAIN agentTunnels : agentTunnels[k].name = <<"ext", 0>>
                                    /\ agentTunnels[k].url.scheme = "https"

\* C21: every URL recorded in activeTunnels, and every URL a call has returned
\* with success, has the https scheme: an http URL in the agent's answer to
\* the create request is recorded and returned as its https variant, and a
\* tunnel the agent lists with an http URL only is not recorded
C21_RecordedUrlsAreHttps ==
  /\ \A e \in activeTunnels : e[2].scheme = "https"
  /\ lastReturn.result.success =>
       /\ lastReturn.result.url.scheme = "https"
       /\ \E e \in activeTunnels : e[1] = lastReturn.port
  /\ \A e \in activeTunnels :
       \A k \in DOMAIN agentTunnels :
         (agentTunnels[k].url.scheme # "https") => e[2].host # agentTunnels[k].url.host

\* C21's case: the agent lists an http-only tunnel of port 3000, and the
\* gateway has recorded for port 3000 the https URL of the tunnel it created
C21_Witness ==
  /\ \E k \in DOMAIN agentTunnels :
       agentTunnels[k].port = 3000 /\ agentTunnels[k].url.scheme = "http"
  /\ recorded(activeTunnels, 3000) = [scheme |-> "https", host |-> tunnelName(3000)]
  /\ lastReturn.port = 3000
  /\ lastReturn.result = tunnelResult(TRUE, recorded(activeTunnels, 3000), "")

---------------------------------------------------------------------------
(* Properties of startup *)

\* A session that forwards to the gateway's own port under the configured
\* public domain
OwnSession(t) == t.port = serverPort /\ t.url.host = domain

\* The agent's API has reported such a session to main
ReportedOwnSession ==
  /\ mainPc \notin {"off", "check"}
  /\ \E k \in DOMAIN reported : OwnSession(reported[k])

\* C4: when the agent's control API reports a session that forwards to the
\* gateway's own port and matches the configured domain, main has called
\* neither killExistingNgrok nor startNgrok and has gone on to reuse: it runs
\* (or has shut down) without a child of its own
C4_ReuseWithoutKillOrStart ==
  ReportedOwnSession =>
    /\ kills = 0
    /\ starts = 0
    /\ ngrok = noNgrok
    /\ ngrokProcess = "none"
    /\ mainPc \in {"running", "exited"}

\* C4's case: main runs on the session the agent listed after another tunnel
C4_Witness ==
  /\ ReportedOwnSession
  /\ Len(reported) = 2
  /\ mainPc = "running"
  /\ alive

\* C5 as stated: of the failures of startNgrok only the missing executable
\* ends the gateway; after any other failure the gateway runs on
C5_OnlyMissingExecutableAborts ==
  ngrok.promise = "rejected" =>
    /\ ngrok.reason = "ngrok not found" => ~alive
    /\ ngrok.reason \in {"Failed to start ngrok", "ngrok error", "ngrok exited with code"}
         => alive

\* C5 amended: every failure of startNgrok that is signalled before its timer
\* has run out (a spawn error of any code, a marker on stderr, a non-zero
\* exit, a throw while the policy file is written) ends the gateway with exit
\* code 1, and nothing else at startup does
C5_EveryLaunchFailureAborts ==
  /\ ngrok.promise = "rejected" => (~alive /\ exitCode = 1 /\ mainPc = "exited")
  /\ exitCode = 1 => ngrok.promise = "rejected"
  /\ (ngrok.promise = "resolved" /\ mainPc = "running") => alive

\* C5's case: the agent has exited early with a non-zero code and the gateway
\* is gone
C5_Witness ==
  /\ ngrok.promise = "rejected"
  /\ ngrok.reason = "ngrok exited with code"
  /\ exitCode = 1
  /\ ~alive

\* C22 as stated: startNgrok's promise settles once; it resolves only when the
\* grace period elapses with no early-exit signal before it, so never for an
\* agent process that has already exited; it rejects when the signal comes
\* first
C22_SettlesOnceNoExitedSuccess ==
  [][/\ ngrok.promise \in {"resolved", "rejected"} => ngrok'.promise = ngrok.promise
     /\ (ngrok.promise = "pending" /\ ngrok'.promise = "resolved") =>
          (ngrok.timer /\ ngrok.child = "running")
     /\ (ngrok.promise = "pending" /\ ngrok'.child \in {"failed", "closed"}) =>
          ngrok'.promise = "rejected"]_vars

\* The agent has reported sessions, none of them the gateway's own
ReportedOtherSessions(list) ==
  /\ list # << >>
  /\ \A k \in DOMAIN list : ~OwnSession(list[k])

\* C23 as stated: when the agent reports sessions and none is the gateway's
\* own, startNgrok is called only once killExistingNgrok has been called, the
\* sessions are terminated and the settle interval has elapsed
C23_KillAndSettleBeforeStart ==
  [][(starts' > starts /\ ReportedOtherSessions(reported')) =>
       (kills = 1 /\ mainPc = "settle" /\ agentTunnels = << >>)]_vars

\* C23 as amended: startNgrok is called only after killExistingNgrok; when
\* pkill succeeded the sessions are terminated and the start follows the
\* settle interval; when pkill failed the start follows at once, with the
\* sessions left as they were
C23_KillBeforeStartSettleAfterKill ==
  [][(starts' > starts /\ ReportedOtherSessions(reported')) =>
       /\ kills' = 1
       /\ \/ mainPc = "settle" /\ kills = 1 /\ agentTunnels = << >>
          \/ mainPc = "check" /\ kills = 0 /\ agentTunnels' = agentTunnels
                              /\ agentTunnels # << >>]_vars

\* C23's case: other sessions were reported, killed, and the agent was
\* started after the settle interval
C23_Witness ==
  /\ ReportedOtherSessions(reported)
  /\ kills = 1
  /\ starts = 1
  /\ agentTunnels = << >>
  /\ ngrok.promise = "resolved"

\* C29: shutdown kills the agent only when the gateway started it in this
\* run and startNgrok resolved; after a reuse at startup the gateway has
\* called neither pkill nor kill, at shutdown or before
C29_ShutdownKillsOwnAgentOnly ==
  /\ ngrok.killed => (starts = 1 /\ ngrok.promise = "resolved" /\ ngrokProcess = "child")
  /\ ReportedOwnSession => (~ngrok.killed /\ kills = 0 /\ ngrokProcess = "none")
  /\ (mainPc = "exited" /\ exitCode = 0 /\ ngrokProcess = "child") => ngrok.killed

\* C29's case: the gateway reused a session and has shut down on a signal
C29_Witness ==
  /\ ReportedOwnSession
  /\ mainPc = "exited"
  /\ exitCode = 0
  /\ ~ngrok.killed

---------------------------------------------------------------------------
(* Properties of kill and quick launch *)

\* An index that names no entry of quickLaunch
OutOfBounds(index) == index \notin 0..(Len(quickLaunch) - 1)

\* C6: a launch request whose index is outside [0, len(quickLaunch)) is
\* answered with the failure 'Invalid command index', and handling it makes
\* no spawn call and leaves no child behind
C6_InvalidIndexNeverSpawns ==
  [][(lastApi'.n # lastApi.n /\ lastApi'.op = "launch" /\ OutOfBounds(lastApi'.arg)) =>
       /\ ~lastApi'.success
       /\ lastApi'.message = "Invalid command index"
       /\ spawnCalls' = spawnCalls
       /\ childError' = childError]_vars

\* C6's case: after a command was started, the index just past the last
\* entry was asked for and refused
C6_Witness ==
  /\ lastApi.op = "launch"
  /\ Len(quickLaunch) > 0
  /\ lastApi.arg = Len(quickLaunch)
  /\ lastApi.status = 200
  /\ ~lastApi.success
  /\ spawnCalls = 1

\* C7 as stated, for kill and launch: when the operating system fails the
\* operation (lsof or kill fails, the executable cannot be started), the
\* caller gets a failure result and the gateway keeps running
C7_FailureReturnedGatewaySurvives ==
  lastApi.cause # "" => (lastApi.status = 200 /\ ~lastApi.success /\ alive)

\* C14: killByPort returns success exactly when lsof returned PIDs and every
\* one of them was killed; when lsof found none or failed, or a kill failed,
\* it returns a failure with a message; and whenever the gateway is still
\* there the call has returned a result to the handler, which answers 200
C14_KillSucceedsOnlyIfAllSignalled ==
  [][\A seg \in KillSegments, lsof \in LsofResults :
       (PostKill(seg, lsof) /\ lastApi'.status # 400) =>
         /\ alive' => lastApi'.status = 200
         /\ lastApi'.success =>
              /\ lsof.ok
              /\ lsof.pids # << >>
              /\ \A k \in DOMAIN lsof.pids : lsof.pids[k] \in killed'
         /\ (alive' /\ ~lastApi'.success) =>
              /\ lastApi'.message = "Failed to kill process on port"
              /\ lastApi'.cause \in {"lsof", "kill"}
              /\ ~lsof.ok \/ \E k \in DOMAIN lsof.pids : lsof.pids[k] \notin killed']_vars

\* C14's case: lsof listed two processes, the first was killed and the kill
\* of the second failed
C14_Witness ==
  /\ lastApi.op = "kill"
  /\ lastApi.status = 200
  /\ ~lastApi.success
  /\ lastApi.cause = "kill"
  /\ killed = {"svc"}
  /\ alive

\* C15 as stated: the answer to GET /api/commands lists every configured
\* entry by its name only; the entry's command is not in it
C15_CommandsByNameOnly ==
  lastGet.route = "commands" =>
    /\ Len(lastGet.commands) = Len(quickLaunch)
    /\ \A k \in DOMAIN lastGet.commands :
         /\ lastGet.commands[k].name = quickLaunch[k].name
         /\ DOMAIN lastGet.commands[k] = {"name"}

\* C30 as stated: no sequence of API requests makes the gateway signal its
\* own process: after a kill request for the gateway's own port, or for a
\* port it holds a connection to, the gateway is not among the processes
\* killed and it is still running
C30_NeverSignalsItself ==
  /\ "self" \notin killed
  /\ lastApi.op = "kill" => alive

---------------------------------------------------------------------------
(* Properties of the API's answers *)

\* The keys of JSON.stringify(result) for a result of createTunnel: success
\* always, url and message when the result has them
TunnelKeys(result) ==
  {"success"} \cup (IF result.url # noUrl THEN {"url"} ELSE {})
              \cup (IF result.message # "" THEN {"message"} ELSE {})

\* The kill or launch route, and the tunnel route, have answered
KillLaunchAnswered == lastApi.status \in {200, 400}
TunnelAnswered == lastReturn # noReturn

\* C16 as stated: every answer of an /api/ route is a JSON object with a
\* boolean success and a message
C16_EveryAnswerHasSuccessAndMessage ==
  /\ KillLaunchAnswered => (lastApi.success \in BOOLEAN /\ lastApi.message # "")
  /\ TunnelAnswered => {"success", "message"} \subseteq TunnelKeys(lastReturn.result)
  /\ lastGet.route = ""

\* C16 as amended: the answers of the kill and launch routes, the 400s
\* included, and the failures of the tunnel route are objects with a boolean
\* success and a message; a success of the tunnel route has success and url,
\* and a message only when the tunnel existed; the commands and tunnels
\* routes answer with the bare array and the bare port -> URL object
C16_OperationAnswersHaveSuccess ==
  /\ KillLaunchAnswered => (lastApi.success \in BOOLEAN /\ lastApi.message # "")
  /\ TunnelAnswered =>
       LET r == lastReturn.result
       IN /\ r.success \in BOOLEAN
          /\ ~r.success => TunnelKeys(r) = {"success", "message"}
          /\ r.success => {"success", "url"} \subseteq TunnelKeys(r)
          /\ (r.success /\ "message" \in TunnelKeys(r)) => r.message = "Tunnel already exists"
  /\ lastGet.route = "commands" => lastGet.commands = quickLaunch
  /\ lastGet.route = "tunnels" => lastGet.tunnels \subseteq activeTunnels

\* C16's case: a kill was refused, a tunnel was created and answered without a
\* message, and the tunnels route has listed it
C16_Witness ==
  /\ lastApi.op = "kill" /\ lastApi.status = 200 /\ ~lastApi.success
  /\ lastReturn.result.success
  /\ TunnelKeys(lastReturn.result) = {"success", "url"}
  /\ lastGet.route = "tunnels"
  /\ lastGet.tunnels # {}

=============================================================================
